---------------------------- MODULE Spec2Model ----------------------------
(***************************************************************************)
(* Order book engine of the NASDAQ simulator                               *)
(* (src/order_book_simulator/order_book.py, class OrderBook), and the      *)
(* integrated simulation that feeds its updates to the trading engine      *)
(* (src/integrated_simulator.py, process_messages_async of main.py and     *)
(* TradingEngine.run of src/trading_engine/trading_engine.py).             *)
(*                                                                         *)
(* The state is the OrderBook object: the order registry `orders`, the     *)
(* per-stock price-level maps `books`, the cached `best_prices`, the       *)
(* `price_history` trail, the `stocks` set and the `message_counts`.       *)
(* Every handler is an operator from the OrderBook value it is called on   *)
(* to the OrderBook value it leaves behind; the actions apply              *)
(* process_message to one input message each.                              *)
(*                                                                         *)
(* Prices are the float keys of the level dictionaries; they are modelled  *)
(* as integers (a count of price ticks), on which ==, <, max and min       *)
(* agree with the floats parsed from the decimal strings of the feed.      *)
(* Python's None is the empty sequence, a present price p is <<p>>.        *)
(* The n-th message of the stream carries timestamp n.                     *)
(***************************************************************************)
EXTENDS Integers, Sequences, FiniteSets, TLC

(***************************************************************************)
(* Bounds of the model.                                                    *)
(***************************************************************************)
\* The number of messages of the input stream.
MaxMsgs == 3

\* deque(maxlen=self.price_history_max_size)
price_history_max_size == 1000

\* The values the fields of the input messages are drawn from.
Refs == {1, 2}
Prices == {1, 2}
Qtys == {0, 1, 2}
Sides == {"Buy", "Sell"}
Stocks == {"AAA", "BBB"}

None == <<>>
Some(p) == <<p>>

\* The OrderBook object built by process_messages (order_book = OrderBook()):
\* a record of its attributes orders, books, best_prices, price_history,
\* stocks, message_counts and snapshot_cache, and of `raised`, which is TRUE
\* once a handler has raised an exception.
VARIABLES order_book

\* The integrated simulation (src/integrated_simulator.py):
\*   simulator          the locals of process_messages_async and the part of
\*                      the input file it has not read yet,
\*   market_data_queue  the asyncio.Queue between the two components,
\*   engine             the TradingEngine object and the state of its tasks,
\*   emitted            history: every item put on the queue, in order,
\*   emitted_top        history: per stock, the top of the book when the last
\*                      update of the stock was put on the queue.
VARIABLES simulator, market_data_queue, engine, emitted, emitted_top

\* The run of the same input file behind filter_messages_by_stocks
\* (main.py --stocks): the stock list given and the OrderBook that
\* process_messages builds from the messages the filter keeps.
VARIABLES filtered

sim_vars == <<simulator, market_data_queue, engine, emitted, emitted_top,
              filtered>>

vars == <<order_book, simulator, market_data_queue, engine, emitted,
          emitted_top, filtered>>

(***************************************************************************)
(* Helpers for dictionaries and for max()/min() over their keys.           *)
(***************************************************************************)
Max(S) == CHOOSE x \in S : \A y \in S : y <= x
Min(S) == CHOOSE x \in S : \A y \in S : x <= y

\* d[k] = v
DictSet(d, k, v) == [x \in (DOMAIN d) \cup {k} |-> IF x = k THEN v ELSE d[x]]
\* del d[k]
DictDel(d, k) == [x \in (DOMAIN d) \ {k} |-> d[x]]

EmptyDict == [x \in {} |-> 0]

RECURSIVE SumOver(_, _)
SumOver(d, S) ==
  IF S = {} THEN 0
  ELSE LET k == CHOOSE x \in S : TRUE IN d[k] + SumOver(d, S \ {k})
\* sum(d.values())
DictSum(d) == SumOver(d, DOMAIN d)

\* "bids" if side == "Buy" else "asks"
BookSide(side) == IF side = "Buy" THEN "bids" ELSE "asks"

\* if price in levels: levels[price] -= qty; if levels[price] <= 0: del levels[price]
LevelRemove(levels, price, qty) ==
  IF price \in DOMAIN levels
    THEN IF levels[price] - qty <= 0
           THEN DictDel(levels, price)
           ELSE DictSet(levels, price, levels[price] - qty)
    ELSE levels

\* if price not in levels: levels[price] = 0; levels[price] += qty
LevelAdd(levels, price, qty) ==
  IF price \in DOMAIN levels
    THEN DictSet(levels, price, levels[price] + qty)
    ELSE DictSet(levels, price, 0 + qty)

\* _update_best_prices with the best ask taken as max() of the ask prices.
update_best_prices_max_ask(self, stock) ==
  [self EXCEPT !.best_prices[stock] =
     [bid |-> IF DOMAIN self.books[stock].bids # {}
                THEN Some(Max(DOMAIN self.books[stock].bids)) ELSE None,
      ask |-> IF DOMAIN self.books[stock].asks # {}
                THEN Some(Max(DOMAIN self.books[stock].asks)) ELSE None]]

(***************************************************************************)
(* OrderBook._update_best_prices                                           *)
(***************************************************************************)
update_best_prices(self, stock) ==
  [self EXCEPT !.best_prices[stock] =
     [bid |-> IF DOMAIN self.books[stock].bids # {}
                THEN Some(Max(DOMAIN self.books[stock].bids)) ELSE None,
      ask |-> IF DOMAIN self.books[stock].asks # {}
                THEN Some(Min(DOMAIN self.books[stock].asks)) ELSE None]]

(***************************************************************************)
(* OrderBook._update_price_history.  self.stocks is a set, so the          *)
(* self.stocks.append of line 333 raises AttributeError when reached.      *)
(***************************************************************************)
DequeAppend(q, e) ==
  IF Len(q) >= price_history_max_size THEN Append(Tail(q), e) ELSE Append(q, e)

update_price_history(self, stock, timestamp) ==
  LET bid == self.best_prices[stock].bid
      ask == self.best_prices[stock].ask
  IN IF bid # None /\ ask # None
       THEN IF stock \notin self.stocks
              THEN [self EXCEPT !.raised = TRUE]
              ELSE [self EXCEPT !.price_history[stock] =
                      DequeAppend(@, <<timestamp, bid[1], ask[1]>>)]
       ELSE self

(***************************************************************************)
(* OrderBook._process_add_order                                            *)
(***************************************************************************)
process_add_order(self, data, timestamp) ==
  IF ~(data.reference # 0 /\ data.side # "" /\ data.shares # 0
       /\ data.stock # "" /\ data.price # 0)
    THEN self
    ELSE
      LET order == [reference |-> data.reference, price |-> data.price,
                    shares |-> data.shares, side |-> data.side,
                    stock |-> data.stock, timestamp |-> timestamp]
          book_side == BookSide(data.side)
          s1 == [self EXCEPT
                   !.stocks = @ \cup {data.stock},
                   !.orders = DictSet(@, data.reference, order),
                   !.books[data.stock][book_side] =
                       LevelAdd(@, data.price, data.shares)]
      IN update_price_history(update_best_prices(s1, data.stock),
                              data.stock, timestamp)

\* _process_delete_order without the `reference in self.orders` test:
\* self.orders[reference] raises KeyError for an unknown reference.
process_delete_order_unguarded(self, data) ==
  IF data.reference \in DOMAIN self.orders
    THEN
      LET order == self.orders[data.reference]
          book_side == BookSide(order.side)
          s1 == [self EXCEPT
                   !.books[order.stock][book_side] =
                       LevelRemove(@, order.price, order.shares),
                   !.orders = DictDel(@, data.reference)]
      IN update_price_history(update_best_prices(s1, order.stock),
                              order.stock, order.timestamp)
    ELSE [self EXCEPT !.raised = TRUE]

(***************************************************************************)
(* OrderBook._process_delete_order                                         *)
(***************************************************************************)
process_delete_order(self, data) ==
  IF data.reference \in DOMAIN self.orders
    THEN
      LET order == self.orders[data.reference]
          book_side == BookSide(order.side)
          s1 == [self EXCEPT
                   !.books[order.stock][book_side] =
                       LevelRemove(@, order.price, order.shares),
                   !.orders = DictDel(@, data.reference)]
      IN update_price_history(update_best_prices(s1, order.stock),
                              order.stock, order.timestamp)
    ELSE self

(***************************************************************************)
(* OrderBook._process_order_executed                                       *)
(***************************************************************************)
process_order_executed(self, data) ==
  IF data.reference \in DOMAIN self.orders /\ data.shares > 0
    THEN
      LET order == self.orders[data.reference]
          book_side == BookSide(order.side)
          s1 == [self EXCEPT
                   !.books[order.stock][book_side] =
                       LevelRemove(@, order.price, data.shares),
                   !.orders =
                       IF order.shares - data.shares <= 0
                         THEN DictDel(@, data.reference)
                         ELSE [@ EXCEPT ![data.reference].shares =
                                           order.shares - data.shares]]
      IN update_price_history(update_best_prices(s1, order.stock),
                              order.stock, order.timestamp)
    ELSE self

\* _process_order_cancelled taking the whole order off the book whatever the
\* cancelled share count is.
process_order_cancelled_whole(self, data) ==
  IF data.reference \in DOMAIN self.orders /\ data.shares > 0
    THEN process_delete_order(self, data)
    ELSE self

(***************************************************************************)
(* OrderBook._process_order_cancelled                                      *)
(***************************************************************************)
process_order_cancelled(self, data) ==
  IF data.reference \in DOMAIN self.orders /\ data.shares > 0
    THEN
      LET order == self.orders[data.reference]
          book_side == BookSide(order.side)
          s1 == [self EXCEPT
                   !.books[order.stock][book_side] =
                       LevelRemove(@, order.price, data.shares),
                   !.orders =
                       IF order.shares - data.shares <= 0
                         THEN DictDel(@, data.reference)
                         ELSE [@ EXCEPT ![data.reference].shares =
                                           order.shares - data.shares]]
      IN update_price_history(update_best_prices(s1, order.stock),
                              order.stock, order.timestamp)
    ELSE self

\* _process_replace_order that tests the new reference instead of the old
\* one: an unknown old reference with a known new reference replaces the
\* order stored under the new reference.
process_replace_order_wrong_key(self, data, timestamp) ==
  IF data.new_reference \in DOMAIN self.orders
    THEN
      LET old_order == self.orders[data.new_reference]
          book_side == BookSide(old_order.side)
          new_order == [reference |-> data.new_reference,
                        price |-> data.price, shares |-> data.shares,
                        side |-> old_order.side, stock |-> old_order.stock,
                        timestamp |-> timestamp]
          s1 == [self EXCEPT
                   !.books[old_order.stock][book_side] =
                       LevelAdd(LevelRemove(@, old_order.price,
                                            old_order.shares),
                                data.price, data.shares),
                   !.orders = DictSet(DictDel(@, data.new_reference),
                                      data.new_reference, new_order)]
      IN update_price_history(update_best_prices(s1, new_order.stock),
                              new_order.stock, timestamp)
    ELSE self

(***************************************************************************)
(* OrderBook._process_replace_order                                        *)
(***************************************************************************)
process_replace_order(self, data, timestamp) ==
  IF data.reference \in DOMAIN self.orders
    THEN
      LET old_order == self.orders[data.reference]
          book_side == BookSide(old_order.side)
          new_order == [reference |-> data.new_reference,
                        price |-> data.price, shares |-> data.shares,
                        side |-> old_order.side, stock |-> old_order.stock,
                        timestamp |-> timestamp]
          s1 == [self EXCEPT
                   !.books[old_order.stock][book_side] =
                       LevelAdd(LevelRemove(@, old_order.price,
                                            old_order.shares),
                                data.price, data.shares),
                   !.orders = DictSet(DictDel(@, data.reference),
                                      data.new_reference, new_order)]
      IN update_price_history(update_best_prices(s1, new_order.stock),
                              new_order.stock, timestamp)
    ELSE self

(***************************************************************************)
(* OrderBook.process_message: the dispatch on the body of the message and  *)
(* the message counters.                                                   *)
(***************************************************************************)
MsgKey(tag) ==
  CASE tag = "AddOrder" -> "add_order"
    [] tag = "DeleteOrder" -> "delete_order"
    [] tag = "OrderExecuted" -> "order_executed"
    [] tag = "OrderCancelled" -> "order_cancelled"
    [] tag = "ReplaceOrder" -> "replace_order"
    [] OTHER -> "other"

dispatch(self, message) ==
  CASE message.tag = "AddOrder" ->
         process_add_order(self, message.body, message.timestamp)
    [] message.tag = "DeleteOrder" ->
         process_delete_order(self, message.body)
    [] message.tag = "OrderExecuted" ->
         process_order_executed(self, message.body)
    [] message.tag = "OrderCancelled" ->
         process_order_cancelled(self, message.body)
    [] message.tag = "ReplaceOrder" ->
         process_replace_order(self, message.body, message.timestamp)
    [] OTHER -> self

\* total is counted before the handler runs, the counter of the kind after
\* the handler has returned.
process_message(self, message) ==
  LET counted == [self EXCEPT !.message_counts.total = @ + 1]
      handled == dispatch(counted, message)
  IN IF handled.raised
       THEN handled
       ELSE [handled EXCEPT !.message_counts[MsgKey(message.tag)] = @ + 1]

(***************************************************************************)
(* OrderBook.__init__                                                      *)
(***************************************************************************)
OrderBook ==
  [orders |-> EmptyDict,
   books |-> [s \in Stocks |-> [bids |-> EmptyDict, asks |-> EmptyDict]],
   best_prices |-> [s \in Stocks |-> [bid |-> None, ask |-> None]],
   price_history |-> [s \in Stocks |-> <<>>],
   stocks |-> {},
   message_counts |-> [add_order |-> 0, delete_order |-> 0,
                       order_executed |-> 0, order_cancelled |-> 0,
                       replace_order |-> 0, other |-> 0, total |-> 0],
   snapshot_cache |-> [s \in Stocks |-> None],
   raised |-> FALSE]

(***************************************************************************)
(* asyncio.Queue as run_integrated_simulation builds it: Queue() has       *)
(* maxsize 0, which stands for no bound; full() is Queue.full and put is   *)
(* what Queue.put does once the queue is not full.                         *)
(***************************************************************************)
Queue == [maxsize |-> 0, items |-> <<>>]

full(q) == q.maxsize > 0 /\ Len(q.items) >= q.maxsize

put(q, item) == [q EXCEPT !.items = Append(@, item)]

\* The symbols of the updates the trading engine is given: the stocks of the
\* book and nine more, one more than strategy_params['max_positions'] in all.
Symbols ==
  Stocks \cup {"CCC", "DDD", "EEE", "FFF", "GGG", "HHH", "III", "JJJ", "KKK"}

\* initial_capital, the default of TradingEngine.__init__.
initial_capital == 1000000

(***************************************************************************)
(* TradingEngine.__init__.  strategy_updates is the sequence of the        *)
(* updates handed to liquidity_reversion_strategy; order_queue holds the   *)
(* requests put on the asyncio.Queue the engine is built with.  The record *)
(* has no field order_age, as __init__ sets no such attribute.  The float  *)
(* metrics are quotients, 0.0 being <<0, 1>>; the wall-clock start_time of *)
(* the metrics is not kept.  The last three                                *)
(* fields are the states of the tasks of TradingEngine.run.                *)
(***************************************************************************)
TradingEngine ==
  [running |-> TRUE,
   cash |-> initial_capital,
   positions |-> EmptyDict,
   trades |-> <<>>,
   orders |-> EmptyDict,
   next_order_id |-> 1,
   next_trade_id |-> 1,
   market_data |-> [s \in Symbols |-> None],
   price_history |-> [s \in Symbols |-> <<>>],
   orders_by_age |-> EmptyDict,
   active_strategies |-> EmptyDict,
   metrics |-> [total_pnl |-> <<0, 1>>, realized_pnl |-> <<0, 1>>,
                unrealized_pnl |-> <<0, 1>>, num_trades |-> 0,
                winning_trades |-> 0, losing_trades |-> 0],
   order_queue |-> <<>>,
   strategy_updates |-> <<>>,
   market_data_task |-> "get",
   reporting_task |-> "loop",
   run_task |-> "gather"]

(***************************************************************************)
(* The book events of the input files of the integrated simulation: each   *)
(* occurs at most once in a file, among any number of messages of other    *)
(* kinds.                                                                  *)
(***************************************************************************)
SimEvents ==
  { [tag |-> "AddOrder",
     body |-> [reference |-> 1, side |-> "Buy", shares |-> 1,
               stock |-> "AAA", price |-> 1]],
    [tag |-> "AddOrder",
     body |-> [reference |-> 2, side |-> "Sell", shares |-> 1,
               stock |-> "AAA", price |-> 2]],
    [tag |-> "OrderExecuted", body |-> [reference |-> 2, shares |-> 1]] }

\* The locals of process_messages_async before its loop: i is the index of
\* the next message, interval_elapsed the last value of
\* `current_time - last_update_time >= update_interval`.
\* The filtered run before its first message; an empty stock list is a run
\* without --stocks.
Filtered(stocks) == [stocks |-> stocks, order_book |-> OrderBook]

Simulator(tick_by_tick) ==
  [pc |-> "loop",
   i |-> 0,
   tick_by_tick |-> tick_by_tick,
   interval_elapsed |-> FALSE,
   unread |-> SimEvents]

SimInit(tick_by_tick) ==
  /\ order_book = OrderBook
  /\ simulator = Simulator(tick_by_tick)
  /\ market_data_queue = Queue
  /\ engine = TradingEngine
  /\ emitted = <<>>
  /\ emitted_top = [s \in Stocks |-> None]
  /\ filtered = Filtered({})

Init == SimInit(FALSE)

(***************************************************************************)
(* The input stream: the n-th message carries timestamp n, and the loop of *)
(* process_messages stops at the end of the stream or when process_message *)
(* raises.                                                                 *)
(***************************************************************************)
NextTimestamp == order_book.message_counts.total + 1

Message(tag, body) == [tag |-> tag, timestamp |-> NextTimestamp, body |-> body]

AddMsg(r, sd, st, p, q) ==
  Message("AddOrder",
    [reference |-> r, side |-> sd, shares |-> q, stock |-> st, price |-> p])
DeleteMsg(r) == Message("DeleteOrder", [reference |-> r])
ExecuteMsg(r, q) == Message("OrderExecuted", [reference |-> r, shares |-> q])
CancelMsg(r, q) == Message("OrderCancelled", [reference |-> r, shares |-> q])
ReplaceMsg(r, nr, p, q) ==
  Message("ReplaceOrder",
    [reference |-> r, new_reference |-> nr, shares |-> q, price |-> p])
OtherMsg == Message("Other", EmptyDict)

HasNextMessage ==
  /\ order_book.message_counts.total < MaxMsgs
  /\ ~order_book.raised

(***************************************************************************)
(* One action per kind of input message: order_book.process_message(msg).  *)
(***************************************************************************)
AddOrder ==
  \E r \in Refs, sd \in Sides, st \in Stocks, p \in Prices, q \in Qtys :
    /\ HasNextMessage
    /\ order_book' = process_message(order_book, AddMsg(r, sd, st, p, q))
    /\ UNCHANGED sim_vars

DeleteOrder ==
  \E r \in Refs :
    /\ HasNextMessage
    /\ order_book' = process_message(order_book, DeleteMsg(r))
    /\ UNCHANGED sim_vars

OrderExecuted ==
  \E r \in Refs, q \in Qtys :
    /\ HasNextMessage
    /\ order_book' = process_message(order_book, ExecuteMsg(r, q))
    /\ UNCHANGED sim_vars

OrderCancelled ==
  \E r \in Refs, q \in Qtys :
    /\ HasNextMessage
    /\ order_book' = process_message(order_book, CancelMsg(r, q))
    /\ UNCHANGED sim_vars

ReplaceOrder ==
  \E r \in Refs, nr \in Refs, p \in Prices, q \in Qtys :
    /\ HasNextMessage
    /\ order_book' = process_message(order_book, ReplaceMsg(r, nr, p, q))
    /\ UNCHANGED sim_vars

OtherMessage ==
  /\ HasNextMessage
  /\ order_book' = process_message(order_book, OtherMsg)
  /\ UNCHANGED sim_vars

Next ==
  \/ AddOrder
  \/ DeleteOrder
  \/ OrderExecuted
  \/ OrderCancelled
  \/ ReplaceOrder
  \/ OtherMessage

Spec == Init /\ [][Next]_vars

(***************************************************************************)
(* Notation of the properties.                                             *)
(***************************************************************************)
\* Volume of a price level, zero when the level is not in the book.
LevelVolume(levels, price) ==
  IF price \in DOMAIN levels THEN levels[price] ELSE 0

\* Sum of the remaining shares of the registry's orders of one stock and side.
RECURSIVE RemainingOver(_, _, _, _)
RemainingOver(reg, S, stock, side) ==
  IF S = {} THEN 0
  ELSE LET r == CHOOSE x \in S : TRUE
       IN (IF reg[r].stock = stock /\ reg[r].side = side
             THEN reg[r].shares ELSE 0)
          + RemainingOver(reg, S \ {r}, stock, side)
Remaining(stock, side) ==
  RemainingOver(order_book.orders, DOMAIN order_book.orders, stock, side)

(***************************************************************************)
(* C1 (volume conservation): in every reachable state, for every stock and *)
(* side, the sum of the volumes of the price levels of that side equals    *)
(* the sum of the remaining shares of the registry's orders of that stock  *)
(* and side.  The code breaks it: an Execute or Cancel takes its full      *)
(* quantity off the level even when the order holds fewer shares, and an   *)
(* Add under a known reference overwrites the record but keeps its volume. *)
(***************************************************************************)
C1_VolumeConservation ==
  \A st \in Stocks, sd \in Sides :
    DictSum(order_book.books[st][BookSide(sd)]) = Remaining(st, sd)

(***************************************************************************)
(* C2 (best prices): in every reachable state, for every stock, the cached *)
(* best bid is the maximum of the bid level prices and the cached best ask *)
(* is the minimum of the ask level prices, and the cached best of a side   *)
(* is None exactly when the side has no level.                             *)
(***************************************************************************)
C2_BestPricesConsistent ==
  \A st \in Stocks :
    LET bids == DOMAIN order_book.books[st].bids
        asks == DOMAIN order_book.books[st].asks
        bid == order_book.best_prices[st].bid
        ask == order_book.best_prices[st].ask
    IN /\ (bid = None) <=> (bids = {})
       /\ (ask = None) <=> (asks = {})
       /\ bid # None => bid[1] \in bids /\ \A p \in bids : p <= bid[1]
       /\ ask # None => ask[1] \in asks /\ \A p \in asks : ask[1] <= p

\* Witness of C2: two orders were added and one of them was then deleted,
\* executed or cancelled, and a stock keeps a level and a best price on
\* the side of the order that is left.
C2_Witness ==
  /\ order_book.message_counts.add_order = 2
  /\ order_book.message_counts.delete_order
       + order_book.message_counts.order_executed
       + order_book.message_counts.order_cancelled = 1
  /\ Cardinality(DOMAIN order_book.orders) = 1
  /\ \E st \in Stocks :
       /\ DOMAIN order_book.books[st].bids = {1}
       /\ order_book.best_prices[st].bid = Some(1)
       /\ order_book.best_prices[st].ask = None

(***************************************************************************)
(* C3 (no empty record, no empty level): in every reachable state every    *)
(* order of the registry has more than zero remaining shares and every     *)
(* price level of every book has more than zero volume.  The code breaks   *)
(* it: a Replace with quantity zero registers the new order with zero      *)
(* shares and creates its level with volume zero.                          *)
(***************************************************************************)
C3_NoZeroRemaining ==
  /\ \A r \in DOMAIN order_book.orders : order_book.orders[r].shares > 0
  /\ \A st \in Stocks, sd \in Sides :
       \A p \in DOMAIN order_book.books[st][BookSide(sd)] :
         order_book.books[st][BookSide(sd)][p] > 0

(***************************************************************************)
(* C4 (duplicate Add rejected): every step that processes an Add whose     *)
(* reference is in the registry leaves the registry entry of that          *)
(* reference and the price levels of every book as they were.  The code    *)
(* has no such test: it overwrites the record and adds the volume.         *)
(***************************************************************************)
C4_DuplicateAddRejected ==
  [][\A r \in DOMAIN order_book.orders :
       \A sd \in Sides, st \in Stocks, p \in Prices, q \in Qtys :
         order_book' = process_message(order_book, AddMsg(r, sd, st, p, q))
           => /\ r \in DOMAIN order_book'.orders
              /\ order_book'.orders[r] = order_book.orders[r]
              /\ order_book'.books = order_book.books]_vars

(***************************************************************************)
(* C5 (unknown reference dropped): in every reachable state, processing a  *)
(* Delete, an Execute or a Cancel whose reference is not in the registry   *)
(* raises nothing and returns the book with its registry, price levels,    *)
(* best prices, price history and stock set unchanged (only the message    *)
(* counters differ); no order record is created.                           *)
(***************************************************************************)
\* Everything of the OrderBook but its message counters.
BookState(ob) ==
  <<ob.orders, ob.books, ob.best_prices, ob.price_history, ob.stocks, ob.raised>>

C5_UnknownRefIgnored ==
  \A r \in Refs \ DOMAIN order_book.orders :
    /\ BookState(process_message(order_book, DeleteMsg(r)))
         = BookState(order_book)
    /\ \A q \in Qtys :
         /\ BookState(process_message(order_book, ExecuteMsg(r, q)))
              = BookState(order_book)
         /\ BookState(process_message(order_book, CancelMsg(r, q)))
              = BookState(order_book)
    /\ ~order_book.raised

\* Witness of C5: the stream was an Add (the order with timestamp 1, still
\* in the registry) and then a Delete, an Execute or a Cancel that did not
\* touch it; with quantities of at least one share left in place, the second
\* message named a reference the registry did not hold.
C5_Witness ==
  /\ order_book.message_counts.total = 2
  /\ order_book.message_counts.add_order = 1
  /\ order_book.message_counts.delete_order = 1
  /\ \E r \in DOMAIN order_book.orders : order_book.orders[r].timestamp = 1

(***************************************************************************)
(* C6 (over-fill capped at remaining): every step that processes an        *)
(* Execute or a Cancel of a known order with a quantity above the order's  *)
(* remaining shares removes the order, lowers the volume of the order's    *)
(* price level by exactly the remaining shares, and keeps the level unless *)
(* that leaves it no volume.  It is stated of the steps that start from a  *)
(* book whose levels hold exactly the registry's shares.  The code takes   *)
(* the full quantity off the level, so shares of other orders at the price *)
(* leave the book.                                                         *)
(***************************************************************************)
C6_OverfillCapped ==
  [][\A r \in DOMAIN order_book.orders, q \in Qtys :
       LET o == order_book.orders[r]
           before == order_book.books[o.stock][BookSide(o.side)]
           after == order_book'.books[o.stock][BookSide(o.side)]
       IN (/\ C1_VolumeConservation
           /\ C3_NoZeroRemaining
           /\ q > o.shares
           /\ \/ order_book' = process_message(order_book, ExecuteMsg(r, q))
              \/ order_book' = process_message(order_book, CancelMsg(r, q)))
          => /\ r \notin DOMAIN order_book'.orders
             /\ LevelVolume(after, o.price)
                  = LevelVolume(before, o.price) - o.shares
             /\ (o.price \in DOMAIN after)
                  <=> (LevelVolume(before, o.price) - o.shares > 0)]_vars

(***************************************************************************)
(* C7 (Replace of an unknown order ignored): in every reachable state,     *)
(* processing a Replace whose old reference is not in the registry returns *)
(* the book with its registry, price levels, best prices and price history *)
(* unchanged; the new reference is not inserted.                           *)
(***************************************************************************)
C7_ReplaceUnknownIgnored ==
  \A r \in Refs \ DOMAIN order_book.orders :
    \A nr \in Refs, p \in Prices, q \in Qtys :
      BookState(process_message(order_book, ReplaceMsg(r, nr, p, q)))
        = BookState(order_book)

\* Witness of C7: the stream was an Add (the order with timestamp 1, still
\* in the registry) and then a Replace that did not touch it: a Replace of
\* the only order would have removed it or stamped it with timestamp 2.
C7_Witness ==
  /\ order_book.message_counts.total = 2
  /\ order_book.message_counts.add_order = 1
  /\ order_book.message_counts.replace_order = 1
  /\ \E r \in DOMAIN order_book.orders : order_book.orders[r].timestamp = 1

(***************************************************************************)
(* C8 (Replace onto a known reference skipped): every step that processes  *)
(* a Replace of a known order whose new reference is another order of the  *)
(* registry leaves the registry (the record under the new reference and    *)
(* the old record) and all price levels as they were.  The code has no     *)
(* such test: it drops the old order and overwrites the other one.         *)
(***************************************************************************)
C8_ReplaceDuplicateSkipped ==
  [][\A r \in DOMAIN order_book.orders :
       \A nr \in DOMAIN order_book.orders \ {r}, p \in Prices, q \in Qtys :
         order_book' = process_message(order_book, ReplaceMsg(r, nr, p, q))
           => /\ order_book'.orders = order_book.orders
              /\ order_book'.books = order_book.books]_vars

(***************************************************************************)
(* C9 (Replace = Delete ; Add): in every reachable state, for every known  *)
(* reference a, every new reference b, price p and quantity q, the         *)
(* registry, price levels and best prices after Replace(a, b, p, q) are    *)
(* those after Delete(a) followed by Add(b, side of a, stock of a, p, q),  *)
(* the Add carrying the timestamp of the Replace.  The code breaks it for  *)
(* q = 0: the Add is dropped as incomplete, the Replace registers b.       *)
(***************************************************************************)
C9_ReplaceIsDeleteThenAdd ==
  \A a \in DOMAIN order_book.orders :
    \A b \in Refs, p \in Prices, q \in Qtys :
      LET o == order_book.orders[a]
          replaced == process_message(order_book, ReplaceMsg(a, b, p, q))
          deleted == process_message(order_book, DeleteMsg(a))
          added == process_message(deleted, AddMsg(b, o.side, o.stock, p, q))
      IN /\ replaced.orders = added.orders
         /\ replaced.books = added.books
         /\ replaced.best_prices = added.best_prices

(***************************************************************************)
(* C10 (Add ; Delete restores): in every reachable state, for every Add    *)
(* with a reference a that the registry does not hold, Add(a, ...)         *)
(* followed by Delete(a) gives back the registry and the bid levels, ask   *)
(* levels, best bid and best ask of the Add's stock.  The code breaks it   *)
(* at a price whose level has volume zero (left by a Replace with quantity *)
(* zero, C3): the Delete erases the level that was there before the Add.   *)
(***************************************************************************)
C10_AddDeleteRestores ==
  \A a \in Refs \ DOMAIN order_book.orders :
    \A sd \in Sides, st \in Stocks, p \in Prices, q \in Qtys :
      LET added == process_message(order_book, AddMsg(a, sd, st, p, q))
          deleted == process_message(added, DeleteMsg(a))
      IN /\ deleted.orders = order_book.orders
         /\ deleted.books[st] = order_book.books[st]
         /\ deleted.best_prices[st] = order_book.best_prices[st]

(***************************************************************************)
(* Input streams whose Adds may carry a price or a share count that is     *)
(* zero or negative: the JSON loader hands every number of the file to     *)
(* process_message as it is.                                               *)
(***************************************************************************)
SignedPrices == {-1, 0, 1}
SignedQtys == {-1, 0, 1}

AddOrderSigned ==
  \E r \in Refs, sd \in Sides, st \in Stocks,
     p \in SignedPrices, q \in SignedQtys :
    /\ HasNextMessage
    /\ order_book' = process_message(order_book, AddMsg(r, sd, st, p, q))
    /\ UNCHANGED sim_vars

NextSigned ==
  \/ AddOrderSigned
  \/ DeleteOrder
  \/ OrderExecuted
  \/ ReplaceOrder

SpecSigned == Init /\ [][NextSigned]_vars

(***************************************************************************)
(* C11 (non-positive Add rejected): every step that processes an Add whose *)
(* price is zero or negative, or whose share count is zero or negative,    *)
(* leaves the registry and the price levels of every book as they were.    *)
(* The code only tests that the fields are truthy: zero is dropped, a      *)
(* negative price or share count is registered and makes a level.          *)
(***************************************************************************)
C11_NonPositiveAddRejected ==
  [][\A r \in Refs, sd \in Sides, st \in Stocks :
       \A p \in SignedPrices, q \in SignedQtys :
         /\ p <= 0 \/ q <= 0
         /\ order_book' = process_message(order_book, AddMsg(r, sd, st, p, q))
         => /\ order_book'.orders = order_book.orders
            /\ order_book'.books = order_book.books]_vars

(***************************************************************************)
(* C12 (effect of Replace): in every reachable state, for every known      *)
(* reference a, every reference b that the registry does not hold, price p *)
(* and quantity q, after Replace(a, b, p, q) the registry holds b and not  *)
(* a, the record of b has the side and stock of a, price p and q shares;   *)
(* the level at the old price has lost the remaining shares of a and is    *)
(* gone when nothing is left; the level at p has gained q.  (When p is the *)
(* old price the level has lost the one and gained the other.)  The code   *)
(* breaks it after an over-fill (C6) has left a level with less volume     *)
(* than its orders: the level is erased and loses less than the order had. *)
(***************************************************************************)
C12_ReplaceMovesOrder ==
  \A a \in DOMAIN order_book.orders :
    \A b \in Refs \ DOMAIN order_book.orders, p \in Prices, q \in Qtys :
      LET o == order_book.orders[a]
          before == order_book.books[o.stock][BookSide(o.side)]
          replaced == process_message(order_book, ReplaceMsg(a, b, p, q))
          after == replaced.books[o.stock][BookSide(o.side)]
      IN /\ a \notin DOMAIN replaced.orders
         /\ b \in DOMAIN replaced.orders
         /\ replaced.orders[b].side = o.side
         /\ replaced.orders[b].stock = o.stock
         /\ replaced.orders[b].price = p
         /\ replaced.orders[b].shares = q
         /\ IF p = o.price
              THEN LevelVolume(after, p)
                     = LevelVolume(before, p) - o.shares + q
              ELSE /\ LevelVolume(after, o.price)
                        = LevelVolume(before, o.price) - o.shares
                   /\ o.price \in DOMAIN after
                        <=> LevelVolume(before, o.price) - o.shares > 0
                   /\ LevelVolume(after, p) = LevelVolume(before, p) + q

(***************************************************************************)
(* C13 (Cancel = Execute but for the statistics): in every reachable       *)
(* state, for every reference r and quantity q, Cancel(r, q) gives the     *)
(* registry, price levels, best prices, price history and stock set that   *)
(* Execute(r, q) gives; the message counters differ in that the one counts *)
(* a cancel where the other counts an execution.                           *)
(***************************************************************************)
C13_CancelAsExecute ==
  \A r \in Refs, q \in Qtys :
    LET cancelled == process_message(order_book, CancelMsg(r, q))
        executed == process_message(order_book, ExecuteMsg(r, q))
    IN /\ BookState(cancelled) = BookState(executed)
       /\ cancelled.message_counts =
            [executed.message_counts EXCEPT !.order_executed = @ - 1,
                                            !.order_cancelled = @ + 1]

\* A Cancel of one share has left one share of an order of two, which a
\* further Cancel or Execute of one share would take off the book.
C13_Witness ==
  /\ order_book.message_counts.order_cancelled = 1
  /\ order_book.message_counts.add_order = 1
  /\ order_book.message_counts.total = 2
  /\ \E r \in DOMAIN order_book.orders :
       LET o == order_book.orders[r]
       IN /\ o.shares = 1
          /\ order_book.books[o.stock][BookSide(o.side)] = (o.price :> 1)

(***************************************************************************)
(* The integrated simulation: process_messages_async (the producer),       *)
(* the market-data queue and TradingEngine.run (the consumer).             *)
(***************************************************************************)
\* The number of messages of the longest input file.
StreamLen == 21

\* `if i % 10 == 0`: the loop looks at the clock every tenth message.
update_check_period == 10

\* `if i % 1000 == 0: await asyncio.sleep(0)`
yield_period == 1000

\* get_order_book_snapshot: `current_msg_count - cache_msg_count < 5`
snapshot_cache_max_age == 5

\* process_market_update: `len(self.price_history[symbol]) < 10`
min_history == 10

\* process_market_update: `len(self.price_history[symbol]) > 100`
max_history == 100

\* strategy_params['order_timeout_ticks']
order_timeout_ticks == 5

\* A float that is the quotient of two integers.
Ratio(num, den) == <<num, den>>

\* sorted(d.items(), reverse=True) and sorted(d.items()): the keys in order.
RECURSIVE SortedDescending(_)
SortedDescending(S) ==
  IF S = {} THEN <<>> ELSE <<Max(S)>> \o SortedDescending(S \ {Max(S)})

RECURSIVE SortedAscending(_)
SortedAscending(S) ==
  IF S = {} THEN <<>> ELSE <<Min(S)>> \o SortedAscending(S \ {Min(S)})

SnapshotRows(levels, keys, side) ==
  [k \in 1..Len(keys) |->
     [price |-> keys[k], volume |-> levels[keys[k]], side |-> side]]

(***************************************************************************)
(* OrderBook.get_order_book_snapshot: the rows of the snapshot (the empty  *)
(* sequence for an empty DataFrame) and the OrderBook with its cache.      *)
(***************************************************************************)
get_order_book_snapshot(self, stock) ==
  IF stock \notin DOMAIN self.books
    THEN [self |-> self, snapshot |-> <<>>]
    ELSE
      LET current_msg_count == self.message_counts.total
          cached == self.snapshot_cache[stock]
          bids == self.books[stock].bids
          asks == self.books[stock].asks
          bid_data == SnapshotRows(bids, SortedDescending(DOMAIN bids), "bid")
          ask_data == SnapshotRows(asks, SortedAscending(DOMAIN asks), "ask")
          all_data == bid_data \o ask_data
      IN IF /\ cached # None
            /\ current_msg_count - cached[1].msg_count < snapshot_cache_max_age
           THEN [self |-> self, snapshot |-> cached[1].snapshot]
           ELSE IF all_data = <<>>
                  THEN [self |-> self, snapshot |-> <<>>]
                  ELSE [self |-> [self EXCEPT !.snapshot_cache[stock] =
                                    Some([msg_count |-> current_msg_count,
                                          snapshot |-> all_data])],
                        snapshot |-> all_data]

(***************************************************************************)
(* OrderBook.get_price_history: the rows (timestamp, bid, ask, mid).       *)
(***************************************************************************)
get_price_history(self, stock) ==
  LET price_data == self.price_history[stock]
  IN [k \in 1..Len(price_data) |->
        [timestamp |-> price_data[k][1],
         bid |-> price_data[k][2],
         ask |-> price_data[k][3],
         mid |-> Ratio(price_data[k][2] + price_data[k][3], 2)]]

\* ob_snapshot.loc[ob_snapshot['side'] == side, 'volume'].sum()
RECURSIVE SideVolume(_, _)
SideVolume(ob_snapshot, side) ==
  IF ob_snapshot = <<>> THEN 0
  ELSE (IF Head(ob_snapshot).side = side THEN Head(ob_snapshot).volume ELSE 0)
       + SideVolume(Tail(ob_snapshot), side)

\* The market_data dictionary of process_messages_async.
market_data_update(stock, latest_price, ob_snapshot) ==
  LET bid_volume == SideVolume(ob_snapshot, "bid")
      ask_volume == SideVolume(ob_snapshot, "ask")
      total_volume == bid_volume + ask_volume
  IN [timestamp |-> latest_price.timestamp,
      symbol |-> stock,
      bid_price |-> latest_price.bid,
      ask_price |-> latest_price.ask,
      mid_price |-> latest_price.mid,
      bid_volume |-> bid_volume,
      ask_volume |-> ask_volume,
      imbalance |-> IF total_volume > 0
                      THEN Ratio(bid_volume - ask_volume, total_volume)
                      ELSE Ratio(0, 1),
      spread |-> latest_price.ask - latest_price.bid,
      spread_pct |-> Ratio((latest_price.ask - latest_price.bid) * 200,
                           latest_price.bid + latest_price.ask)]

(***************************************************************************)
(* process_messages_async, `for stock in order_book.stocks`: one update    *)
(* for every stock that has a price history and a snapshot.  stocks is the *)
(* sequence of the stocks in the order the set is iterated in.             *)
(***************************************************************************)
RECURSIVE publish_updates(_, _, _)
publish_updates(self, queue, stocks) ==
  IF stocks = <<>>
    THEN [order_book |-> self, queue |-> queue]
    ELSE
      LET stock == Head(stocks)
          price_history == get_price_history(self, stock)
          snap == get_order_book_snapshot(self, stock)
          latest_price == price_history[Len(price_history)]
      IN IF price_history # <<>> /\ snap.snapshot # <<>>
           THEN publish_updates(
                  snap.self,
                  put(queue, Some(market_data_update(stock, latest_price,
                                                     snap.snapshot))),
                  Tail(stocks))
           ELSE publish_updates(snap.self, queue, Tail(stocks))

\* The orders in which a set of stocks can be iterated.
IterationOrders(S) ==
  {order \in [1..Cardinality(S) -> S] :
     \A j, k \in 1..Cardinality(S) : j # k => order[j] # order[k]}

\* The top of a stock's book: best prices and the volumes at them.
TopOfBook(self, stock) ==
  LET best == self.best_prices[stock]
  IN [bid |-> best.bid,
      ask |-> best.ask,
      bid_volume |-> IF best.bid = None THEN 0
                     ELSE LevelVolume(self.books[stock].bids, best.bid[1]),
      ask_volume |-> IF best.ask = None THEN 0
                     ELSE LevelVolume(self.books[stock].asks, best.ask[1])]

\* The items the queue `after` holds behind those of `before`.
NewItems(before, after) ==
  SubSeq(after.items, Len(before.items) + 1, Len(after.items))

\* The stocks of the updates among a sequence of queue items.
SymbolsOf(items) == {items[k][1].symbol : k \in 1..Len(items)}

(***************************************************************************)
(* One turn of the loop of process_messages_async on `message`:            *)
(* process_message, then every update_check_period-th message the updates  *)
(* of all stocks when tick_by_tick is set or update_interval has elapsed   *)
(* (the clock is read from the environment), then the sleep(0) every       *)
(* yield_period-th message.  No put suspends unless the queue is full.     *)
(***************************************************************************)
ProcessMessagesAsync(message) ==
  /\ simulator.pc = "loop"
  /\ simulator.i < StreamLen
  /\ LET processed == process_message(order_book, message)
         check == simulator.i % update_check_period = 0
     IN \E interval_elapsed \in BOOLEAN :
        \E order \in IterationOrders(processed.stocks) :
          LET should_update ==
                /\ ~processed.raised
                /\ check
                /\ simulator.tick_by_tick \/ interval_elapsed
              published ==
                IF should_update
                  THEN publish_updates(processed, market_data_queue, order)
                  ELSE [order_book |-> processed, queue |-> market_data_queue]
              sent == NewItems(market_data_queue, published.queue)
          IN /\ market_data_queue.maxsize > 0
                  => Len(published.queue.items) <= market_data_queue.maxsize
             /\ order_book' = published.order_book
             /\ market_data_queue' = published.queue
             /\ emitted' = emitted \o sent
             /\ emitted_top' =
                  [s \in Stocks |->
                     IF s \in SymbolsOf(sent)
                       THEN Some(TopOfBook(processed, s))
                       ELSE emitted_top[s]]
             /\ simulator' =
                  [simulator EXCEPT
                     !.i = @ + 1,
                     !.interval_elapsed =
                        IF check /\ ~processed.raised
                          THEN interval_elapsed ELSE @,
                     !.unread = @ \ {[tag |-> message.tag,
                                      body |-> message.body]},
                     !.pc = IF processed.raised THEN "failed"
                            ELSE IF simulator.i % yield_period = 0
                                   THEN "sleep" ELSE "loop"]
             /\ UNCHANGED <<filtered, engine>>

\* The next message of the file is a book event.
SimBookEvent ==
  \E event \in simulator.unread :
    ProcessMessagesAsync(Message(event.tag, event.body))

\* The next message of the file is of a kind the book ignores.
SimOtherMessage ==
  \E message \in {OtherMsg} : ProcessMessagesAsync(message)

\* The event loop resumes the producer after asyncio.sleep(0).
SimResume ==
  /\ simulator.pc = "sleep"
  /\ simulator' = [simulator EXCEPT !.pc = "loop"]
  /\ UNCHANGED <<filtered, order_book, market_data_queue, engine, emitted,
                 emitted_top>>

\* The sentinel put twice.
end_of_data_twice(queue) == put(put(queue, None), None)

\* The sentinel put behind the loop of process_messages_async.
end_of_data(queue) == put(queue, None)

\* The file has no further message: `await market_data_queue.put(None)`.
SimEndOfData ==
  /\ simulator.pc = "loop"
  /\ ~full(market_data_queue)
  /\ market_data_queue' = end_of_data(market_data_queue)
  /\ emitted' = emitted \o NewItems(market_data_queue, market_data_queue')
  /\ simulator' = [simulator EXCEPT !.pc = "done"]
  /\ UNCHANGED <<filtered, order_book, engine, emitted_top>>

(***************************************************************************)
(* The trading strategy of the engine.  strategy_params of                 *)
(* TradingEngine.__init__; the float parameters are kept as quotients.     *)
(***************************************************************************)
liquidity_threshold == Ratio(3, 2)
reverse_threshold == Ratio(67, 100)
position_size == 100
min_volume == 500
hold_time_ticks == 30
profit_target_pct == Ratio(5, 100)
stop_loss_pct == Ratio(3, 100)
max_positions == 10

\* Comparison and arithmetic of quotients with positive denominators.
RatioLE(a, b) == a[1] * b[2] <= b[1] * a[2]
RatioLT(a, b) == a[1] * b[2] < b[1] * a[2]
RatioNeg(a) == Ratio(0 - a[1], a[2])
RatioAdd(a, b) == Ratio(a[1] * b[2] + b[1] * a[2], a[2] * b[2])
RatioSign(a) == IF a[1] > 0 THEN 1 ELSE IF a[1] < 0 THEN -1 ELSE 0

\* defaultdict(set): self.orders_by_age[age]
Bucket(orders_by_age, age) ==
  IF age \in DOMAIN orders_by_age THEN orders_by_age[age] ELSE {}

\* place_order paying for the order out of the cash.
place_order_charging(self, symbol, side, quantity, price) ==
  LET order_id == self.next_order_id
      order == [id |-> order_id, symbol |-> symbol, side |-> side,
                quantity |-> quantity, price |-> price,
                status |-> "active", filled |-> 0, executions |-> <<>>]
  IN [self |-> [self EXCEPT
                  !.cash = @ - quantity * price,
                  !.next_order_id = @ + 1,
                  !.orders = DictSet(@, order_id, order),
                  !.orders_by_age =
                     DictSet(@, 0, Bucket(@, 0) \cup {order_id}),
                  !.order_queue =
                     Append(@, [type |-> "new_order", order |-> order])],
      order_id |-> order_id]

\* place_order storing the order with status "new".
place_order_new(self, symbol, side, quantity, price) ==
  LET order_id == self.next_order_id
      order == [id |-> order_id, symbol |-> symbol, side |-> side,
                quantity |-> quantity, price |-> price,
                status |-> "new", filled |-> 0, executions |-> <<>>]
  IN [self |-> [self EXCEPT
                  !.next_order_id = @ + 1,
                  !.orders = DictSet(@, order_id, order),
                  !.orders_by_age =
                     DictSet(@, 0, Bucket(@, 0) \cup {order_id}),
                  !.order_queue =
                     Append(@, [type |-> "new_order", order |-> order])],
      order_id |-> order_id]

(***************************************************************************)
(* TradingEngine.place_order: the order is stored with status "active",    *)
(* entered in age bucket 0 and put on the order queue; its id is returned. *)
(* The wall-clock timestamp of the order is not kept.                      *)
(***************************************************************************)
place_order(self, symbol, side, quantity, price) ==
  LET order_id == self.next_order_id
      order == [id |-> order_id, symbol |-> symbol, side |-> side,
                quantity |-> quantity, price |-> price,
                status |-> "active", filled |-> 0, executions |-> <<>>]
  IN [self |-> [self EXCEPT
                  !.next_order_id = @ + 1,
                  !.orders = DictSet(@, order_id, order),
                  !.orders_by_age =
                     DictSet(@, 0, Bucket(@, 0) \cup {order_id}),
                  !.order_queue =
                     Append(@, [type |-> "new_order", order |-> order])],
      order_id |-> order_id]

(***************************************************************************)
(* TradingEngine.cancel_order.  Only an order with status "new" or         *)
(* "partially_filled" is accepted; behind the status change the method     *)
(* reads self.order_age, which raises AttributeError on an engine that has *)
(* no such attribute.  result is the value returned or the exception.      *)
(***************************************************************************)
cancel_order(self, order_id) ==
  IF order_id \notin DOMAIN self.orders
    THEN [self |-> self, result |-> "False"]
  ELSE IF self.orders[order_id].status \notin {"new", "partially_filled"}
    THEN [self |-> self, result |-> "False"]
  ELSE
    LET s1 == [self EXCEPT !.orders[order_id].status = "canceled"]
    IN IF "order_age" \notin DOMAIN s1
         THEN [self |-> s1, result |-> "AttributeError"]
         ELSE [self |-> [s1 EXCEPT
                           !.order_age =
                              DictDel(@, order_id),
                           !.order_queue =
                              Append(@, [type |-> "cancel",
                                         order_id |-> order_id])],
               result |-> "True"]

(***************************************************************************)
(* TradingEngine.execute_order.  Only an order with status "new" is        *)
(* accepted; behind the status change the method reads self.order_age,     *)
(* which raises AttributeError on an engine that has no such attribute.    *)
(* With the attribute, the trade is booked against cash and the position   *)
(* of the symbol, or the order is rejected.  The trade's timestamp, taken  *)
(* from time.time(), is not kept.                                          *)
(***************************************************************************)
execute_order(self, order_id) ==
  IF order_id \notin DOMAIN self.orders
    THEN [self |-> self, result |-> "False"]
  ELSE IF self.orders[order_id].status # "new"
    THEN [self |-> self, result |-> "False"]
  ELSE
    LET order == self.orders[order_id]
        symbol == order.symbol
        quantity == order.quantity
        price == order.price
        s1 == [self EXCEPT !.orders[order_id].status = "filled"]
    IN IF "order_age" \notin DOMAIN s1
         THEN [self |-> s1, result |-> "AttributeError"]
         ELSE
           LET s2 == [s1 EXCEPT
                        !.order_age = DictDel(@, order_id),
                        !.next_trade_id = @ + 1,
                        !.positions =
                           IF symbol \in DOMAIN @ THEN @
                           ELSE DictSet(@, symbol,
                                        [quantity |-> 0,
                                         avg_price |-> Ratio(0, 1),
                                         realized_pnl |-> Ratio(0, 1)])]
               position == s2.positions[symbol]
               rejected == [self |-> [s2 EXCEPT !.orders[order_id].status =
                                                   "rejected"],
                            result |-> "False"]
               trade(pnl) == [trade_id |-> s1.next_trade_id,
                              order_id |-> order_id, symbol |-> symbol,
                              side |-> order.side, quantity |-> quantity,
                              price |-> price, pnl |-> pnl]
           IN IF order.side = "buy"
                THEN
                  IF quantity * price > s2.cash THEN rejected
                  ELSE
                    LET new_quantity == position.quantity + quantity
                        new_avg_price ==
                          IF position.quantity = 0 THEN Ratio(price, 1)
                          ELSE Ratio(position.quantity * position.avg_price[1]
                                       + quantity * price
                                           * position.avg_price[2],
                                     position.avg_price[2] * new_quantity)
                    IN [self |-> [s2 EXCEPT
                                    !.cash = @ - quantity * price,
                                    !.positions[symbol].quantity =
                                       new_quantity,
                                    !.positions[symbol].avg_price =
                                       new_avg_price,
                                    !.trades = Append(@, trade(Ratio(0, 1)))],
                        result |-> "True"]
              ELSE IF order.side = "sell"
                THEN
                  IF quantity > position.quantity THEN rejected
                  ELSE
                    LET pnl == Ratio((price * position.avg_price[2]
                                        - position.avg_price[1]) * quantity,
                                     position.avg_price[2])
                    IN [self |-> [s2 EXCEPT
                                    !.positions[symbol].quantity =
                                       @ - quantity,
                                    !.positions[symbol].realized_pnl =
                                       RatioAdd(@, pnl),
                                    !.cash = @ + quantity * price,
                                    !.metrics.realized_pnl =
                                       RatioAdd(@, pnl),
                                    !.metrics.num_trades = @ + 1,
                                    !.metrics.winning_trades =
                                       IF RatioSign(pnl) > 0
                                         THEN @ + 1 ELSE @,
                                    !.metrics.losing_trades =
                                       IF RatioSign(pnl) < 0
                                         THEN @ + 1 ELSE @,
                                    !.trades = Append(@, trade(pnl))],
                        result |-> "True"]
              ELSE [self |-> [s2 EXCEPT
                                !.trades = Append(@, trade(Ratio(0, 1)))],
                    result |-> "True"]

(***************************************************************************)
(* TradingEngine.age_and_cancel_old_orders, when it is awaited: the orders *)
(* of bucket order_timeout_ticks whose status is "active" are passed to    *)
(* cancel_order and the bucket is cleared, then every bucket moves up by   *)
(* one.  An AttributeError of cancel_order ends the method where it is.    *)
(***************************************************************************)
RECURSIVE cancel_all(_, _)
cancel_all(self, order_ids) ==
  IF order_ids = {} THEN [self |-> self, result |-> "None"]
  ELSE LET order_id == Min(order_ids)
           r == IF /\ order_id \in DOMAIN self.orders
                   /\ self.orders[order_id].status = "active"
                  THEN cancel_order(self, order_id)
                  ELSE [self |-> self, result |-> "False"]
       IN IF r.result = "AttributeError" THEN r
          ELSE cancel_all(r.self, order_ids \ {order_id})

age_and_cancel_old_orders(self) ==
  LET max_age == order_timeout_ticks
      r == IF max_age \in DOMAIN self.orders_by_age
             THEN cancel_all(self, self.orders_by_age[max_age])
             ELSE [self |-> self, result |-> "None"]
      cleared == IF max_age \in DOMAIN self.orders_by_age
                   THEN DictSet(r.self.orders_by_age, max_age, {})
                   ELSE r.self.orders_by_age
      shifted ==
        [age \in DOMAIN cleared
               \cup {a + 1 : a \in DOMAIN cleared \cap 0..(max_age - 1)} |->
           IF age \in 1..max_age /\ (age - 1) \in DOMAIN cleared
             THEN IF age = max_age
                    THEN Bucket(cleared, age) \cup cleared[age - 1]
                    ELSE cleared[age - 1]
             ELSE IF age \in 0..(max_age - 1) THEN {}
             ELSE cleared[age]]
  IN IF r.result = "AttributeError" THEN r
     ELSE [self |-> [r.self EXCEPT !.orders_by_age = shifted],
           result |-> "None"]

\* num / den as a quotient with a positive denominator (den # 0).
Quot(num, den) == IF den < 0 THEN Ratio(0 - num, 0 - den) ELSE Ratio(num, den)

(***************************************************************************)
(* liquidity_ratio of liquidity_reversion_strategy: bid_volume/ask_volume  *)
(* when both are positive; otherwise, when the imbalance is not zero and   *)
(* the ask fraction it gives is positive, the quotient of the fractions;   *)
(* otherwise 1.0.                                                          *)
(***************************************************************************)
liquidity_ratio(update) ==
  IF update.bid_volume > 0 /\ update.ask_volume > 0
    THEN Ratio(update.bid_volume, update.ask_volume)
  ELSE IF update.imbalance[1] # 0
    THEN LET n == update.imbalance[1]
             d == update.imbalance[2]
             bid_fraction == Ratio(n + d, 2 * d)
             ask_fraction == Ratio(d - n, 2 * d)
         IN IF RatioSign(ask_fraction) > 0
              THEN Ratio(bid_fraction[1], ask_fraction[1])
              ELSE Ratio(1, 1)
  ELSE Ratio(1, 1)

\* The strategy state of a symbol that has none yet.
NewStrategyState ==
  [position |-> 0, entry_price |-> None, entry_time |-> None,
   hold_ticks |-> 0, last_order_id |-> None]

(***************************************************************************)
(* TradingEngine.liquidity_reversion_strategy.  Flat, it places a sell at  *)
(* the bid when liquidity_ratio >= liquidity_threshold and a buy at the    *)
(* ask when liquidity_ratio <= reverse_threshold, and takes the position   *)
(* as entered.  In a position, it counts the tick and places the closing   *)
(* order on profit target, stop loss, hold time or a ratio between the     *)
(* thresholds.  The closing call `self.age_and_cancel_old_orders()` is not *)
(* awaited: it makes a coroutine object that never runs.                   *)
(***************************************************************************)
liquidity_reversion_strategy(self, update) ==
  LET symbol == update.symbol
      bid_price == update.bid_price
      ask_price == update.ask_price
      open_positions == {s \in DOMAIN self.positions :
                           self.positions[s].quantity # 0}
  IN IF update.bid_volume + update.ask_volume < min_volume THEN self
     ELSE IF Cardinality(open_positions) >= max_positions THEN self
     ELSE
       LET ratio == liquidity_ratio(update)
           s1 == IF symbol \in DOMAIN self.active_strategies THEN self
                 ELSE [self EXCEPT !.active_strategies =
                                      DictSet(@, symbol, NewStrategyState)]
           strategy_state == s1.active_strategies[symbol]
           enter(side, price, position) ==
             LET placed == place_order(s1, symbol, side, position_size, price)
             IN [placed.self EXCEPT !.active_strategies[symbol] =
                   [position |-> position,
                    entry_price |-> Some(price),
                    entry_time |-> Some(update.timestamp),
                    hold_ticks |-> 0,
                    last_order_id |-> Some(placed.order_id)]]
       IN IF strategy_state.position = 0
            THEN
              IF RatioLE(liquidity_threshold, ratio)
                THEN enter("sell", bid_price, 0 - position_size)
              ELSE IF RatioLE(ratio, reverse_threshold)
                THEN enter("buy", ask_price, position_size)
              ELSE s1
          ELSE
            LET hold_ticks == strategy_state.hold_ticks + 1
                s2 == [s1 EXCEPT !.active_strategies[symbol].hold_ticks =
                                    hold_ticks]
                entry_price == strategy_state.entry_price
                size == IF strategy_state.position < 0
                          THEN 0 - strategy_state.position
                          ELSE strategy_state.position
                is_long == strategy_state.position > 0
                current_price == IF is_long THEN ask_price ELSE bid_price
                change == IF entry_price # None /\ entry_price[1] # 0
                            THEN Quot(current_price - entry_price[1],
                                      entry_price[1])
                            ELSE Ratio(0, 1)
                price_change_pct == IF is_long THEN change
                                    ELSE RatioNeg(change)
                profit_target_hit == RatioLE(profit_target_pct,
                                             price_change_pct)
                stop_loss_hit == RatioLE(price_change_pct,
                                         RatioNeg(stop_loss_pct))
                max_hold_time_reached == hold_ticks >= hold_time_ticks
                imbalance_normalized ==
                  /\ RatioLT(reverse_threshold, ratio)
                  /\ RatioLT(ratio, liquidity_threshold)
            IN IF \/ profit_target_hit
                  \/ stop_loss_hit
                  \/ max_hold_time_reached
                  \/ imbalance_normalized
                 THEN
                   LET placed ==
                         place_order(s2, symbol,
                                     IF is_long THEN "sell" ELSE "buy", size,
                                     IF is_long THEN bid_price ELSE ask_price)
                   IN [placed.self EXCEPT !.active_strategies[symbol] =
                         [position |-> 0,
                          entry_price |-> None,
                          entry_time |-> None,
                          hold_ticks |-> 0,
                          last_order_id |-> Some(placed.order_id)]]
                 ELSE s2

\* sum(t['pnl'] for t in trades if sign(t['pnl']) == sign)
RECURSIVE SumPnl(_, _)
SumPnl(trades, sign) ==
  IF trades = <<>> THEN Ratio(0, 1)
  ELSE LET rest == SumPnl(Tail(trades), sign)
       IN IF RatioSign(Head(trades).pnl) = sign
            THEN RatioAdd(Head(trades).pnl, rest) ELSE rest

\* dict.update: d with the keys of `fields` set.
DictUpdate(d, fields) ==
  [k \in DOMAIN d \cup DOMAIN fields |->
     IF k \in DOMAIN fields THEN fields[k] ELSE d[k]]

(***************************************************************************)
(* TradingEngine.calculate_performance_metrics.  The unrealized P&L is     *)
(* summed over the positions with quantity > 0 whose symbol has market     *)
(* data; for such a position the method reads                              *)
(* self.market_data[symbol].mid_price, an attribute of a dict, which       *)
(* raises AttributeError before any metric is written.  float('inf') is    *)
(* the quotient <<1, 0>>; the wall-clock duration_seconds is not kept.     *)
(***************************************************************************)
calculate_performance_metrics(self) ==
  LET marked == {symbol \in DOMAIN self.positions :
                   /\ self.positions[symbol].quantity > 0
                   /\ self.market_data[symbol] # None}
      unrealized_pnl == Ratio(0, 1)
      metrics == self.metrics
      wins == Len(SelectSeq(self.trades,
                            LAMBDA t : RatioSign(t.pnl) > 0))
      losses == Len(SelectSeq(self.trades,
                              LAMBDA t : RatioSign(t.pnl) < 0))
      gross_profit == SumPnl(self.trades, 1)
      loss_sum == SumPnl(self.trades, -1)
      gross_loss == Ratio(0 - loss_sum[1], loss_sum[2])
  IN IF marked # {}
       THEN [self |-> self, result |-> "AttributeError"]
       ELSE
         [self |->
            [self EXCEPT !.metrics =
               DictUpdate(metrics,
                 [unrealized_pnl |-> unrealized_pnl,
                  total_pnl |-> RatioAdd(metrics.realized_pnl,
                                         unrealized_pnl),
                  win_rate |->
                    IF metrics.num_trades > 0
                      THEN Ratio(metrics.winning_trades * 100,
                                 metrics.num_trades)
                      ELSE Ratio(0, 1),
                  avg_profit |->
                    IF wins > 0
                      THEN Ratio(gross_profit[1], gross_profit[2] * wins)
                      ELSE Ratio(0, 1),
                  avg_loss |->
                    IF losses > 0
                      THEN Ratio(loss_sum[1], loss_sum[2] * losses)
                      ELSE Ratio(0, 1),
                  profit_factor |->
                    IF RatioSign(gross_loss) > 0
                      THEN Ratio(gross_profit[1] * gross_loss[2],
                                 gross_profit[2] * gross_loss[1])
                    ELSE IF RatioSign(gross_profit) > 0 THEN Ratio(1, 0)
                    ELSE Ratio(0, 1)])],
          result |-> "metrics"]

(***************************************************************************)
(* TradingEngine.process_market_update: the update is cached, appended to  *)
(* the history of its symbol, and handed to liquidity_reversion_strategy   *)
(* once the symbol has min_history updates.                                *)
(***************************************************************************)
process_market_update(self, update) ==
  LET symbol == update.symbol
      s1 == [self EXCEPT
               !.market_data[symbol] = Some(update),
               !.price_history[symbol] =
                  IF Len(@) + 1 > max_history
                    THEN Tail(Append(@, update)) ELSE Append(@, update)]
  IN IF Len(s1.price_history[symbol]) < min_history
       THEN s1
       ELSE liquidity_reversion_strategy(
              [s1 EXCEPT !.strategy_updates = Append(@, update)], update)

(***************************************************************************)
(* The ageing loop of process_market_data over self.order_age: every order *)
(* grows one tick older, cancel_order takes out the old ones it accepts.   *)
(***************************************************************************)
age_orders(self) ==
  LET aged == [o \in DOMAIN self.order_age |-> self.order_age[o] + 1]
      cancelled ==
        {o \in DOMAIN aged :
           /\ aged[o] >= order_timeout_ticks
           /\ o \in DOMAIN self.orders
           /\ self.orders[o].status \in {"new", "partially_filled"}}
  IN [self EXCEPT
        !.order_age = [o \in DOMAIN aged \ cancelled |-> aged[o]],
        !.orders = [o \in DOMAIN @ |->
                      IF o \in cancelled
                        THEN [@[o] EXCEPT !.status = "canceled"]
                        ELSE @[o]]]

\* The finally block of process_market_data: the final metrics are
\* calculated and the task ends.
market_data_ended(self) ==
  [calculate_performance_metrics(self).self EXCEPT !.market_data_task = "done"]

(***************************************************************************)
(* One turn of the loop of TradingEngine.process_market_data on the item   *)
(* it got from the queue.  Reading self.order_age of an engine that has no *)
(* such attribute raises AttributeError; `except Exception` logs it and    *)
(* the task ends through its finally block, with running as it was.        *)
(***************************************************************************)
process_market_data(self, update) ==
  IF update = None
    THEN market_data_ended([self EXCEPT !.running = FALSE])
    ELSE
      LET s1 == process_market_update(self, update[1])
      IN IF "order_age" \in DOMAIN s1
           THEN age_orders(s1)
           ELSE market_data_ended(s1)

(***************************************************************************)
(* The tasks of the trading engine run when the producer is suspended (in  *)
(* sleep(0), or in a put on a full queue) or has ended.                    *)
(***************************************************************************)
ProducerYields ==
  \/ simulator.pc \in {"sleep", "done", "failed"}
  \/ simulator.pc = "loop" /\ full(market_data_queue)

\* process_market_data: `while self.running:` ... `await queue.get()`.
ProcessMarketData ==
  /\ ProducerYields
  /\ engine.market_data_task = "get"
  /\ IF engine.running
       THEN /\ market_data_queue.items # <<>>
            /\ engine' = process_market_data(engine,
                                             Head(market_data_queue.items))
            /\ market_data_queue' =
                 [market_data_queue EXCEPT !.items = Tail(@)]
       ELSE /\ engine' = market_data_ended(engine)
            /\ UNCHANGED market_data_queue
  /\ UNCHANGED <<filtered, order_book, simulator, emitted, emitted_top>>

\* periodic_reporting: `while self.running:` calculate_performance_metrics,
\* `await asyncio.sleep(1)`; an exception of the calculation ends the task.
PeriodicReporting ==
  /\ ProducerYields
  /\ engine.reporting_task = "loop"
  /\ engine' =
       IF engine.running
         THEN LET r == calculate_performance_metrics(engine)
              IN IF r.result = "AttributeError"
                   THEN [engine EXCEPT !.reporting_task = "done"]
                   ELSE r.self
         ELSE [engine EXCEPT !.reporting_task = "done"]
  /\ UNCHANGED <<filtered, order_book, simulator, market_data_queue, emitted,
                 emitted_top>>

\* TradingEngine.run: asyncio.gather returns when both tasks have ended;
\* the finally block clears running and run returns.
RunReturns ==
  /\ ProducerYields
  /\ engine.run_task = "gather"
  /\ engine.market_data_task = "done"
  /\ engine.reporting_task = "done"
  /\ engine' = [engine EXCEPT !.running = FALSE, !.run_task = "returned"]
  /\ UNCHANGED <<filtered, order_book, simulator, market_data_queue, emitted,
                 emitted_top>>

SimNext ==
  \/ SimBookEvent
  \/ SimOtherMessage
  \/ SimResume
  \/ SimEndOfData
  \/ ProcessMarketData
  \/ PeriodicReporting
  \/ RunReturns

\* run_integrated_simulation, with and without --tick-by-tick.
InitSim == \E tick_by_tick \in BOOLEAN : SimInit(tick_by_tick)

SpecSim == InitSim /\ [][SimNext]_vars

\* The items a step puts on the queue.
Sent == SubSeq(emitted', Len(emitted) + 1, Len(emitted'))

(***************************************************************************)
(* C14 (emission policy): every step that puts an update of a symbol on    *)
(* the queue is the first update of the symbol, or finds the symbol's best *)
(* bid, best ask or a volume at the top of the book other than they were   *)
(* at the previous update of the symbol, or is taken when update_interval  *)
(* has elapsed (the periodic tick).  The code has no test for a change:    *)
(* with tick_by_tick it puts the update of every stock that has data after *)
(* every tenth message, changed or not, elapsed or not.                    *)
(***************************************************************************)
C14_EmitOnlyOnChange ==
  [][\A k \in 1..Len(Sent) :
       Sent[k] # None =>
         LET symbol == Sent[k][1].symbol
         IN \/ emitted_top[symbol] = None
            \/ emitted_top[symbol] # Some(TopOfBook(order_book', symbol))
            \/ simulator'.interval_elapsed]_vars

\* A step of the producer that publishes: a tenth message, with tick_by_tick
\* set or update_interval elapsed.
PublishingStep ==
  /\ simulator'.i = simulator.i + 1
  /\ simulator.i % update_check_period = 0
  /\ simulator.tick_by_tick \/ simulator'.interval_elapsed

\* The best prices an update reports; the code puts a float for either side.
ReportedPrices(update) ==
  [bid |-> Some(update.bid_price), ask |-> Some(update.ask_price)]

(***************************************************************************)
(* C15 (one-sided books are published): every publishing step puts, for    *)
(* every stock it leaves with a best bid and no ask or with a best ask and *)
(* no bid, an update that reports the best price there is and none for the *)
(* side that is missing.  The code skips a stock that never had both sides *)
(* (its price history is empty), and reports the last two-sided prices for *)
(* a stock that has lost a side.                                           *)
(***************************************************************************)
C15_OneSidedPublished ==
  [][PublishingStep =>
       \A stock \in order_book'.stocks :
         LET best == order_book'.best_prices[stock]
         IN (best.bid = None) # (best.ask = None) =>
              \E k \in 1..Len(Sent) :
                /\ Sent[k] # None
                /\ Sent[k][1].symbol = stock
                /\ ReportedPrices(Sent[k][1]) = best]_vars

(***************************************************************************)
(* C16 (updates describe the book): every update a step puts on the queue  *)
(* reports the best bid and best ask its symbol has in the book when it is *)
(* put, and the bid and ask volumes of that book.  The code takes the      *)
(* prices from the last price-history entry, which is appended only while  *)
(* the book has both sides: once the ask side has emptied the update still *)
(* reports the old ask price.                                              *)
(***************************************************************************)
C16_UpdateMatchesBook ==
  [][\A k \in 1..Len(Sent) :
       Sent[k] # None =>
         LET update == Sent[k][1]
             book == order_book'.books[update.symbol]
         IN /\ ReportedPrices(update) = order_book'.best_prices[update.symbol]
            /\ update.bid_volume = DictSum(book.bids)
            /\ update.ask_volume = DictSum(book.asks)]_vars

SentinelDequeued ==
  /\ simulator.pc = "done"
  /\ \A k \in 1..Len(market_data_queue.items) :
       market_data_queue.items[k] # None

(***************************************************************************)
(* C18 (the engine terminates): the consumer loop stops only when it has   *)
(* dequeued the sentinel, and it leaves running cleared, which is what     *)
(* ends periodic_reporting (`while self.running`) and lets the gather of   *)
(* TradingEngine.run return.  The code breaks it as soon as one update is  *)
(* sent: the loop ends on the AttributeError of self.order_age, with the   *)
(* sentinel still in the queue and running still True; nothing clears      *)
(* running after that, so the reporting task and run never return.         *)
(***************************************************************************)
C18_EngineTerminates ==
  engine.market_data_task = "done" =>
    /\ SentinelDequeued
    /\ ~engine.running

\* The updates among a sequence of queue items, in their order.
UpdatesOf(items) ==
  LET IsUpdate(item) == item # None
      updates == SelectSeq(items, IsUpdate)
  IN [k \in 1..Len(updates) |-> updates[k][1]]

(***************************************************************************)
(* C19 (FIFO and lossless delivery): once the producer has returned and    *)
(* the consumer loop has stopped, the updates the engine has handed to its *)
(* strategy are the updates the producer has put on the queue, in the same *)
(* order and none left out.  The code breaks it: the consumer loop ends on *)
(* the AttributeError of self.order_age behind the first update (C18), and *)
(* process_market_update keeps the first min_history - 1 updates of a      *)
(* symbol from the strategy.                                               *)
(***************************************************************************)
C19_FifoLossless ==
  simulator.pc = "done" /\ engine.market_data_task = "done" =>
    engine.strategy_updates = UpdatesOf(emitted)

(***************************************************************************)
(* C20 (bounded queue): whenever updates wait in the market-data queue,    *)
(* the queue has a capacity (maxsize > 0) and holds no more updates than   *)
(* that.  The code builds the queue with asyncio.Queue(): there is no      *)
(* capacity, full() is never true and no put suspends the producer; the    *)
(* queue holds all the updates of the file when the producer returns.      *)
(***************************************************************************)
C20_QueueBounded ==
  UpdatesOf(market_data_queue.items) # <<>> =>
    /\ market_data_queue.maxsize > 0
    /\ Len(UpdatesOf(market_data_queue.items)) <= market_data_queue.maxsize

(***************************************************************************)
(* The updates one turn of the loop of process_messages_async puts on the  *)
(* queue for `message`, as a function of what the turn takes from outside  *)
(* the input file: whether time.time() says update_interval has elapsed,   *)
(* and the order in which the set order_book.stocks is iterated.           *)
(***************************************************************************)
turn_updates(message, interval_elapsed, order) ==
  LET processed == process_message(order_book, message)
      should_update ==
        /\ ~processed.raised
        /\ simulator.i % update_check_period = 0
        /\ simulator.tick_by_tick \/ interval_elapsed
  IN IF should_update
       THEN NewItems(market_data_queue,
                     publish_updates(processed, market_data_queue,
                                     order).queue)
       ELSE <<>>

(***************************************************************************)
(* C21 (determinism): two runs on the same input stream with the same      *)
(* parameters emit the same sequence of updates: in every state of a run,  *)
(* the updates the next turn of the producer emits for the next message    *)
(* are the same whatever the clock reads and however the set of stocks is  *)
(* iterated.  The code breaks it: without --tick-by-tick the turn          *)
(* publishes only when time.time() has advanced by update_interval since   *)
(* the last publication, so one run emits updates where another on the     *)
(* same file emits none.                                                   *)
(***************************************************************************)
C21_Deterministic ==
  simulator.pc = "loop" /\ simulator.i < StreamLen =>
    \A event \in simulator.unread :
      LET message == Message(event.tag, event.body)
          orders == IterationOrders(process_message(order_book,
                                                    message).stocks)
      IN \A e1 \in BOOLEAN, e2 \in BOOLEAN :
           \A o1 \in orders, o2 \in orders :
             turn_updates(message, e1, o1) = turn_updates(message, e2, o2)

(***************************************************************************)
(* The trading engine on its own: TradingEngine.process_market_update is   *)
(* given the updates of a market-data stream one by one, as the loop of    *)
(* process_market_data does before its ageing loop over self.order_age     *)
(* (which ends that loop behind the first update, C18).  The streams are   *)
(* the queue contents the producer can put: every update is built as       *)
(* process_messages_async builds it, and the n-th has timestamp n.         *)
(***************************************************************************)

\* Lengths of the parts of a stream: the updates between the first
\* min_history - 1 ones and the tail, and the tail.
FreeTicks == 2
TailTicks == 31

\* The market_data dictionary for a symbol whose last price row is
\* (timestamp, bid, ask) and whose snapshot sums to the two volumes.
Quote(symbol, timestamp, bid, ask, bid_volume, ask_volume) ==
  market_data_update(
    symbol,
    [timestamp |-> timestamp, bid |-> bid, ask |-> ask,
     mid |-> Ratio(bid + ask, 2)],
    (IF bid_volume > 0
       THEN <<[side |-> "bid", price |-> bid, volume |-> bid_volume]>>
       ELSE <<>>)
    \o (IF ask_volume > 0
          THEN <<[side |-> "ask", price |-> ask, volume |-> ask_volume]>>
          ELSE <<>>))

\* The kinds of update of the streams.
QuoteKinds ==
  {"balanced", "bid_heavy", "ask_heavy", "no_ask", "thin", "ask_up"}

QuoteOf(kind, symbol, timestamp) ==
  CASE kind = "balanced" -> Quote(symbol, timestamp, 100, 101, 300, 300)
    [] kind = "bid_heavy" -> Quote(symbol, timestamp, 100, 101, 600, 300)
    [] kind = "ask_heavy" -> Quote(symbol, timestamp, 100, 101, 300, 600)
    [] kind = "no_ask" -> Quote(symbol, timestamp, 100, 101, 600, 0)
    [] kind = "thin" -> Quote(symbol, timestamp, 100, 101, 100, 100)
    [] kind = "ask_up" -> Quote(symbol, timestamp, 100, 107, 300, 600)

\* One symbol: min_history - 1 updates of one kind, FreeTicks updates of any
\* kinds, TailTicks updates of one kind.
SingleStreams ==
  { [n \in 1..(min_history - 1 + FreeTicks + TailTicks) |->
       QuoteOf(IF n < min_history THEN warm
               ELSE IF n < min_history + FreeTicks
                 THEN free[n - min_history + 1]
               ELSE tail,
               "AAA", n)] :
      warm \in {"balanced", "bid_heavy"},
      free \in [1..FreeTicks -> QuoteKinds],
      tail \in QuoteKinds }

\* Every symbol in turn, min_history rounds, bids outweighing asks.
SymbolOrder ==
  <<"AAA", "BBB", "CCC", "DDD", "EEE", "FFF", "GGG", "HHH", "III", "JJJ",
    "KKK">>

BroadStream ==
  [n \in 1..(Len(SymbolOrder) * min_history) |->
     QuoteOf("bid_heavy", SymbolOrder[((n - 1) % Len(SymbolOrder)) + 1], n)]

EngineStreams == SingleStreams \cup {BroadStream}

InitEngine ==
  \E stream \in EngineStreams :
    /\ order_book = OrderBook
    /\ simulator = Simulator(FALSE)
    /\ market_data_queue = [Queue EXCEPT !.items = stream]
    /\ engine = TradingEngine
    /\ emitted = <<>>
    /\ emitted_top = [s \in Stocks |-> None]
    /\ filtered = Filtered({})
  /\ filtered = Filtered({})

\* while self.running: update = await self.market_data_queue.get();
\* await self.process_market_update(update)
ProcessMarketUpdate ==
  /\ engine.running
  /\ market_data_queue.items # <<>>
  /\ engine' = process_market_update(engine, Head(market_data_queue.items))
  /\ market_data_queue' = [market_data_queue EXCEPT !.items = Tail(@)]
  /\ UNCHANGED <<filtered, order_book, simulator, emitted, emitted_top>>

\* await engine.execute_order(order_id), for an order of the engine.
ExecuteOrder ==
  \E order_id \in DOMAIN engine.orders :
    /\ engine' = execute_order(engine, order_id).self
    /\ UNCHANGED <<filtered, order_book, simulator, market_data_queue, emitted,
                   emitted_top>>

\* await engine.cancel_order(order_id), for an order of the engine.
CancelOrder ==
  \E order_id \in DOMAIN engine.orders :
    /\ engine' = cancel_order(engine, order_id).self
    /\ UNCHANGED <<filtered, order_book, simulator, market_data_queue, emitted,
                   emitted_top>>

\* await engine.age_and_cancel_old_orders(), once the stream has ended.
AgeAndCancelOldOrders ==
  /\ market_data_queue.items = <<>>
  /\ engine' = age_and_cancel_old_orders(engine).self
  /\ UNCHANGED <<filtered, order_book, simulator, market_data_queue, emitted,
                 emitted_top>>

EngineNext ==
  \/ ProcessMarketUpdate
  \/ ExecuteOrder
  \/ CancelOrder
  \/ AgeAndCancelOldOrders

SpecEngine == InitEngine /\ [][EngineNext]_vars

(***************************************************************************)
(* Notation of the properties of the trading engine.                      *)
(***************************************************************************)
\* A step in which the engine processes the next update of the stream.
EngineTick ==
  /\ market_data_queue.items # <<>>
  /\ market_data_queue'.items = Tail(market_data_queue.items)

\* The update an EngineTick step processes.
NextUpdate == Head(market_data_queue.items)

\* The position the strategy holds in a symbol.
StrategyPosition(self, symbol) ==
  IF symbol \in DOMAIN self.active_strategies
    THEN self.active_strategies[symbol].position
    ELSE 0

\* bid depth / ask depth >= liquidity_threshold, the quotient being
\* +infinity on an empty ask side.
DepthRatioHigh(update) ==
  /\ update.bid_volume > 0
  /\ liquidity_threshold[2] * update.bid_volume
       >= liquidity_threshold[1] * update.ask_volume

\* The number of updates at the end of a history that satisfy DepthRatioHigh.
RECURSIVE Streak(_)
Streak(history) ==
  IF history = <<>> \/ ~DepthRatioHigh(history[Len(history)]) THEN 0
  ELSE 1 + Streak(SubSeq(history, 1, Len(history) - 1))

(***************************************************************************)
(* C22 (imbalance entry): while the strategy is flat in a symbol, an       *)
(* update of the symbol makes it enter short, with position                *)
(* -position_size, exactly when the update completes a run of              *)
(* min_consecutive_ticks (5) updates with bid depth / ask depth >=         *)
(* liquidity_threshold.  The code breaks it both ways: it keeps no streak  *)
(* and enters on the first such update once the symbol has min_history     *)
(* (10) updates, and it enters on none, whatever the run, before that.     *)
(***************************************************************************)
C22_ShortEntryOnStreak ==
  [][EngineTick /\ StrategyPosition(engine, NextUpdate.symbol) = 0 =>
       LET min_consecutive_ticks == 5
           symbol == NextUpdate.symbol
       IN StrategyPosition(engine', symbol) = 0 - position_size
            <=> Streak(engine'.price_history[symbol]) = min_consecutive_ticks
    ]_vars

(***************************************************************************)
(* C23 (empty ask side): an update with ask depth zero and bid depth       *)
(* greater than zero is a short signal: processed while the strategy is    *)
(* flat in the symbol and has its min_history updates and min_volume, it   *)
(* makes the strategy enter short.  The code breaks it: with an ask volume *)
(* of zero liquidity_ratio is taken from the imbalance, whose ask fraction *)
(* is then 0, and stays 1.0, below liquidity_threshold.                    *)
(***************************************************************************)
C23_NoAskIsShortSignal ==
  [][/\ EngineTick
     /\ StrategyPosition(engine, NextUpdate.symbol) = 0
     /\ NextUpdate.ask_volume = 0
     /\ NextUpdate.bid_volume >= min_volume
     /\ Len(engine'.price_history[NextUpdate.symbol]) >= min_history
     => StrategyPosition(engine', NextUpdate.symbol) = 0 - position_size
    ]_vars

\* The timestamp of the last update the engine has processed: the number of
\* updates processed so far.
LastTimestamp(self) ==
  Max({0} \cup {self.market_data[s][1].timestamp :
                  s \in {x \in Symbols : self.market_data[x] # None}})

(***************************************************************************)
(* C24 (timeout cancel): the entry order of a position the strategy holds  *)
(* is no longer "active" once order_timeout_ticks + 1 further updates have *)
(* been processed since it was placed.  The code breaks it: the strategy   *)
(* never awaits age_and_cancel_old_orders, and cancel_order refuses an     *)
(* order whose status is "active", so the order stays active for good.     *)
(***************************************************************************)
C24_TimeoutCancel ==
  \A symbol \in DOMAIN engine.active_strategies :
    LET strategy_state == engine.active_strategies[symbol]
    IN /\ strategy_state.position # 0
       /\ LastTimestamp(engine) - strategy_state.entry_time[1]
            >= order_timeout_ticks + 1
       => engine.orders[strategy_state.last_order_id[1]].status # "active"

C26_ImmediateOrNothing ==
  [][EngineTick =>
       \A order_id \in DOMAIN engine'.orders \ DOMAIN engine.orders :
         LET order == engine'.orders[order_id]
             volume == IF order.side = "sell" THEN NextUpdate.bid_volume
                       ELSE NextUpdate.ask_volume
         IN order.status = IF volume >= order.quantity
                             THEN "filled" ELSE "rejected"
    ]_vars

(***************************************************************************)
(* C27 (position cap): the strategy holds a non-zero position in at most   *)
(* max_positions symbols.  The code breaks it: the cap is tested on        *)
(* self.positions, which only execute_order fills, and the strategy never  *)
(* executes an order; it enters an eleventh symbol while it holds ten.     *)
(***************************************************************************)
C27_PositionCap ==
  Cardinality({symbol \in DOMAIN engine.active_strategies :
                 engine.active_strategies[symbol].position # 0})
    <= max_positions

\* The number of updates of a history that are later than a timestamp.
UpdatesSince(history, timestamp) ==
  Cardinality({k \in 1..Len(history) : history[k].timestamp > timestamp})

(***************************************************************************)
(* C28 (hold-time bound): while the strategy holds a non-zero position in  *)
(* a symbol, fewer than hold_time_ticks updates of the symbol have been    *)
(* processed since the entry, whatever those updates carry.  The code      *)
(* breaks it: an update whose two volumes sum to less than min_volume      *)
(* returns before hold_ticks is counted and before the exit conditions, so *)
(* a position is held as long as such updates go on.                       *)
(***************************************************************************)
C28_HoldTimeBound ==
  \A symbol \in DOMAIN engine.active_strategies :
    LET strategy_state == engine.active_strategies[symbol]
    IN strategy_state.position # 0 =>
         UpdatesSince(engine.price_history[symbol],
                      strategy_state.entry_time[1]) < hold_time_ticks

(***************************************************************************)
(* C29 (profit-target exit): the profit target of a long position is       *)
(* judged against the best bid.  When the strategy is long in the symbol   *)
(* of the update it processes, then (a) if the bid is at least             *)
(* entry_price * (1 + profit_target_pct), the position is closed in this   *)
(* step by a sell at the bid for the whole position, and (b) if the bid is *)
(* below that and neither the stop loss (at the bid), nor the hold time,   *)
(* nor a ratio between the thresholds asks for an exit, the position is    *)
(* kept.  The code breaks (b): it judges a long against the ask and sells  *)
(* at the bid, so an ask at the target closes the position below entry.    *)
(***************************************************************************)
C29_ProfitTargetOnBid ==
  [][EngineTick /\ StrategyPosition(engine, NextUpdate.symbol) > 0 =>
       LET symbol == NextUpdate.symbol
           strategy_state == engine.active_strategies[symbol]
           entry_price == strategy_state.entry_price[1]
           change == Quot(NextUpdate.bid_price - entry_price, entry_price)
           target_reached == RatioLE(profit_target_pct, change)
           stop_loss == RatioLE(change, RatioNeg(stop_loss_pct))
           hold_time == strategy_state.hold_ticks + 1 >= hold_time_ticks
           neutral == /\ RatioLT(reverse_threshold,
                                 liquidity_ratio(NextUpdate))
                      /\ RatioLT(liquidity_ratio(NextUpdate),
                                 liquidity_threshold)
           exited == StrategyPosition(engine', symbol) = 0
       IN /\ target_reached =>
               /\ exited
               /\ \E order_id \in
                       DOMAIN engine'.orders \ DOMAIN engine.orders :
                    /\ engine'.orders[order_id].side = "sell"
                    /\ engine'.orders[order_id].price = NextUpdate.bid_price
                    /\ engine'.orders[order_id].quantity
                         = strategy_state.position
          /\ ~target_reached /\ ~stop_loss /\ ~hold_time /\ ~neutral
               => ~exited
    ]_vars

(***************************************************************************)
(* C30 (insufficient cash or shares): execute_order on an order of the     *)
(* engine that is a buy costing more than the cash, or a sell of more      *)
(* shares than the ledger holds of the symbol, gives the order the status  *)
(* "rejected" and leaves cash, positions, metrics and trades as they are.  *)
(* The code breaks it: execute_order accepts only the status "new" and     *)
(* place_order stores "active", so it returns False with the order         *)
(* untouched.                                                              *)
(***************************************************************************)
C30_InsufficientRejected ==
  \A order_id \in DOMAIN engine.orders :
    LET order == engine.orders[order_id]
        held == IF order.symbol \in DOMAIN engine.positions
                  THEN engine.positions[order.symbol].quantity ELSE 0
        after == execute_order(engine, order_id).self
    IN /\ order.status = "active"
       /\ \/ order.side = "buy" /\ order.quantity * order.price > engine.cash
          \/ order.side = "sell" /\ order.quantity > held
       => /\ after.orders[order_id].status = "rejected"
          /\ after.cash = engine.cash
          /\ after.positions = engine.positions
          /\ after.metrics = engine.metrics
          /\ after.trades = engine.trades

\* metrics = engine.calculate_performance_metrics(), as periodic_reporting
\* calls it every second.
CalculatePerformanceMetrics ==
  /\ engine' = calculate_performance_metrics(engine).self
  /\ UNCHANGED <<filtered, order_book, simulator, market_data_queue, emitted,
                 emitted_top>>

(***************************************************************************)
(* TradingEngine.shutdown: running is cleared, the final metrics are       *)
(* calculated and saved, and every other task is cancelled; the tasks of   *)
(* the engine end in their CancelledError handlers.                        *)
(***************************************************************************)
shutdown(self) ==
  [calculate_performance_metrics([self EXCEPT !.running = FALSE]).self
     EXCEPT !.market_data_task = "done",
            !.reporting_task = "done",
            !.run_task = "returned"]

\* await engine.shutdown(), the handler of SIGINT and SIGTERM.
Shutdown ==
  /\ engine.running
  /\ engine' = shutdown(engine)
  /\ UNCHANGED <<filtered, order_book, simulator, market_data_queue, emitted,
                 emitted_top>>

EngineNextReporting ==
  \/ EngineNext
  \/ CalculatePerformanceMetrics
  \/ Shutdown

\* The trading engine with its performance report taken and its shutdown
\* requested at any time.
SpecReporting == InitEngine /\ [][EngineNextReporting]_vars

\* Equality of quotients.
RatioEq(a, b) == a[1] * b[2] = b[1] * a[2]

\* The sum over the symbols of S of position quantity * last mid price.
RECURSIVE PositionValue(_, _)
PositionValue(self, S) ==
  IF S = {} THEN Ratio(0, 1)
  ELSE LET symbol == CHOOSE s \in S : TRUE
           mid == IF self.market_data[symbol] = None THEN Ratio(0, 1)
                  ELSE self.market_data[symbol][1].mid_price
       IN RatioAdd(Ratio(self.positions[symbol].quantity * mid[1], mid[2]),
                   PositionValue(self, S \ {symbol}))

C32_NoActiveAfterStop ==
  ~engine.running =>
    \A order_id \in DOMAIN engine.orders :
      engine.orders[order_id].status # "active"

(***************************************************************************)
(* The order book with snapshot queries between its messages.              *)
(***************************************************************************)
\* order_book.get_order_book_snapshot(stock), at any time.
SnapshotQuery ==
  \E stock \in Stocks :
    /\ order_book' = get_order_book_snapshot(order_book, stock).self
    /\ UNCHANGED sim_vars

\* An AddOrder message for one share of a stock.
AddOneShare ==
  \E r \in Refs, sd \in Sides, st \in Stocks, p \in Prices :
    /\ HasNextMessage
    /\ order_book' = process_message(order_book, AddMsg(r, sd, st, p, 1))
    /\ UNCHANGED sim_vars

NextSnapshot ==
  \/ AddOneShare
  \/ DeleteOrder
  \/ SnapshotQuery

SpecSnapshot == Init /\ [][NextSnapshot]_vars

\* The rows of the book of a stock as it is: the bids in descending, then
\* the asks in ascending price order.
CurrentRows(self, stock) ==
  LET bids == self.books[stock].bids
      asks == self.books[stock].asks
  IN SnapshotRows(bids, SortedDescending(DOMAIN bids), "bid")
       \o SnapshotRows(asks, SortedAscending(DOMAIN asks), "ask")

(***************************************************************************)
(* C33 (snapshot of the current book): in every state and for every stock, *)
(* get_order_book_snapshot returns the price levels and volumes the book   *)
(* holds now, bids descending and asks ascending.  The code breaks it: a   *)
(* snapshot is cached with the message count and returned again until      *)
(* snapshot_cache_max_age (5) further messages have been processed,        *)
(* whatever those messages did to the book.                                *)
(***************************************************************************)
C33_SnapshotIsCurrent ==
  \A stock \in Stocks :
    get_order_book_snapshot(order_book, stock).snapshot
      = CurrentRows(order_book, stock)

(***************************************************************************)
(* C34 (tick by tick): with tick_by_tick set, every turn of the loop of    *)
(* the producer on a message puts an update for every stock that has a     *)
(* price history and a non-empty book behind that message.  The code       *)
(* breaks it: tick_by_tick is only read inside `if i % 10 == 0`, so nine   *)
(* messages of ten are followed by no update.                              *)
(***************************************************************************)
C34_TickByTick ==
  [][/\ simulator.tick_by_tick
     /\ simulator'.i = simulator.i + 1
     /\ simulator'.pc # "failed"
     => \A stock \in order_book'.stocks :
          /\ order_book'.price_history[stock] # <<>>
          /\ CurrentRows(order_book', stock) # <<>>
          => \E k \in 1..Len(Sent) :
               Sent[k] # None /\ Sent[k][1].symbol = stock
    ]_vars

(***************************************************************************)
(* C35 (history on change): a message appends an entry to the price        *)
(* history of a stock only if it changed the best bid or the best ask of   *)
(* that stock, and only if both exist afterwards.  The code breaks the     *)
(* first half: every handler calls _update_price_history after the book    *)
(* update whether or not the best prices moved.                            *)
(***************************************************************************)
C35_HistoryOnChange ==
  [][\A stock \in Stocks :
       order_book'.price_history[stock] # order_book.price_history[stock]
       => /\ order_book'.best_prices[stock] # order_book.best_prices[stock]
          /\ order_book'.best_prices[stock].bid # None
          /\ order_book'.best_prices[stock].ask # None
    ]_vars

(***************************************************************************)
(* C36 (history timestamps): the messages carry increasing timestamps, and *)
(* for every stock the timestamps of its price-history entries are         *)
(* non-decreasing in append order.  The code breaks it: Delete, Execute    *)
(* and Cancel stamp the entry with the timestamp of the order they touch,  *)
(* which is the timestamp of an earlier message.                           *)
(***************************************************************************)
C36_HistoryTimestampsMonotone ==
  \A stock \in Stocks :
    LET h == order_book.price_history[stock]
    IN \A k \in 1..(Len(h) - 1) : h[k][1] <= h[k + 1][1]

(***************************************************************************)
(* C37 (strategy and ledger agree): for every symbol, the position the     *)
(* strategy records in active_strategies equals the quantity of the        *)
(* symbol in the ledger `positions`, zero when the ledger has no entry.    *)
(* The code breaks it: the strategy takes its position when place_order    *)
(* returns an id, and the ledger changes only in execute_order, which      *)
(* nothing calls on an order it accepts.                                   *)
(***************************************************************************)
LedgerQuantity(self, symbol) ==
  IF symbol \in DOMAIN self.positions
    THEN self.positions[symbol].quantity
    ELSE 0

C37_StrategyMatchesLedger ==
  \A symbol \in Symbols :
    StrategyPosition(engine, symbol) = LedgerQuantity(engine, symbol)

(***************************************************************************)
(* The input file processed twice: as it is (order_book) and behind        *)
(* filter_messages_by_stocks with a stock list (filtered.order_book).      *)
(***************************************************************************)
\* filter_messages_by_stocks: a message is kept when its body has a "stock"
\* field whose value is in the list; without a list every message is kept.
\* The body of a message is modelled without the enclosing one-key dict, so
\* `for key in body: if "stock" in body[key]` reads the fields of the body.
filter_messages_by_stocks(messages, stocks) ==
  IF stocks = {}
    THEN messages
    ELSE SelectSeq(messages,
           LAMBDA msg : LET stock == IF "stock" \in DOMAIN msg.body
                                       THEN Some(msg.body.stock) ELSE None
                        IN stock # None /\ stock[1] \in stocks)

\* process_messages: `for message in messages: order_book.process_message`.
RECURSIVE process_messages(_, _)
process_messages(self, messages) ==
  IF messages = <<>>
    THEN self
    ELSE process_messages(process_message(self, Head(messages)),
                          Tail(messages))

\* The next message of the file reaches the unfiltered run, and the
\* filtered run if the filter keeps it.
BothRuns(message) ==
  /\ HasNextMessage
  /\ ~filtered.order_book.raised
  /\ order_book' = process_message(order_book, message)
  /\ filtered' =
       [filtered EXCEPT
          !.order_book =
             process_messages(@, filter_messages_by_stocks(<<message>>,
                                                           filtered.stocks))]
  /\ UNCHANGED <<simulator, market_data_queue, engine, emitted, emitted_top>>

FilterAdd ==
  \E r \in Refs, sd \in Sides, st \in Stocks, p \in Prices :
    \E m \in {AddMsg(r, sd, st, p, 1)} : BothRuns(m)

FilterDelete == \E r \in Refs : \E m \in {DeleteMsg(r)} : BothRuns(m)

FilterExecute == \E r \in Refs : \E m \in {ExecuteMsg(r, 1)} : BothRuns(m)

FilterOther == \E m \in {OtherMsg} : BothRuns(m)

NextFilter == FilterAdd \/ FilterDelete \/ FilterExecute \/ FilterOther

InitFilter ==
  \E stocks \in SUBSET Stocks :
    /\ order_book = OrderBook
    /\ simulator = Simulator(FALSE)
    /\ market_data_queue = Queue
    /\ engine = TradingEngine
    /\ emitted = <<>>
    /\ emitted_top = [s \in Stocks |-> None]
    /\ filtered = Filtered(stocks)

SpecFilter == InitFilter /\ [][NextFilter]_vars

\* The registry entries of a stock.
OrdersOf(self, stock) ==
  {self.orders[r] : r \in {x \in DOMAIN self.orders :
                             self.orders[x].stock = stock}}

(***************************************************************************)
(* C38 (filter preserves the books): for every stock of the filter, the    *)
(* filtered run holds the same registry entries, price levels and best     *)
(* prices for the stock as the unfiltered run of the same file.  The code  *)
(* breaks it: the filter keeps only messages whose body has a "stock"      *)
(* field, so every Delete, Execute, Cancel and Replace is dropped and the  *)
(* filtered book keeps orders the file removed.                            *)
(***************************************************************************)
C38_FilterPreservesBooks ==
  \A stock \in filtered.stocks :
    /\ OrdersOf(filtered.order_book, stock) = OrdersOf(order_book, stock)
    /\ filtered.order_book.books[stock] = order_book.books[stock]
    /\ filtered.order_book.best_prices[stock] = order_book.best_prices[stock]

\* References an Add may carry: those of the streams and 0, the least value
\* of the unsigned 64-bit field.
AnyRefs == {0} \cup Refs

(***************************************************************************)
(* C39 (any reference accepted): in every reachable state, an Add with a   *)
(* stock, a side, a positive price, a positive share count and a reference *)
(* the registry does not hold is applied whatever the reference is: the    *)
(* registry holds the order afterwards and the price level has gained the  *)
(* shares.  The code breaks it for reference 0, which the truthiness test  *)
(* of the fields takes for a missing field.                                *)
(***************************************************************************)
C39_AnyReferenceAccepted ==
  \A r \in AnyRefs \ DOMAIN order_book.orders :
    \A sd \in Sides, st \in Stocks,
       p \in {x \in Prices : x > 0}, q \in {x \in Qtys : x > 0} :
      LET before == order_book.books[st][BookSide(sd)]
          added == process_message(order_book, AddMsg(r, sd, st, p, q))
      IN /\ r \in DOMAIN added.orders
         /\ added.orders[r].stock = st
         /\ added.orders[r].side = sd
         /\ added.orders[r].price = p
         /\ added.orders[r].shares = q
         /\ LevelVolume(added.books[st][BookSide(sd)], p)
              = LevelVolume(before, p) + q

(***************************************************************************)
(* C40 (trades counted): metrics.num_trades equals the length of the trade *)
(* list, and winning_trades + losing_trades is at most num_trades.  It     *)
(* holds in every state the engine reaches, with every term 0: no order of *)
(* the engine is ever executed (C25, C26), so the case the claim is about, *)
(* a state behind an executed order, does not occur.                       *)
(***************************************************************************)
C40_TradesCounted ==
  /\ engine.metrics.num_trades = Len(engine.trades)
  /\ engine.metrics.winning_trades + engine.metrics.losing_trades
       <= engine.metrics.num_trades

\* No run books a trade: the trade list stays empty.
C40_NoTradeEver == engine.trades = <<>>

=============================================================================
